---- MODULE Spec2Model ----
(***************************************************************************)
(* Model of the low-latency market-data pipeline: the fixed-size           *)
(* MemoryPool (memory_pool.h), the single-producer/single-consumer         *)
(* LockFreeQueue built over it (lock_free_queue.h) and the producer and    *)
(* consumer loops of MarketDataParser (market_data.cpp).                   *)
(*                                                                         *)
(* Slot addresses are the integers 1..size_, NullPtr is 0.  A MarketData   *)
(* is a record [symbol, num]: `symbol' is the string member, `num' stands  *)
(* for the price/volume members, which the program always derives from the *)
(* same number.  Copying a MarketData is member-wise and takes two steps   *)
(* (symbol, then the rest), so a half-copied record is a state of the      *)
(* model.  Atomic loads and stores of head and tail are single steps and   *)
(* are sequentially consistent; this is what the acquire/release pairs of  *)
(* the code give for the one flag per direction that each side publishes.  *)
(* Pool storage is raw bytes; a slot that was never assigned holds the     *)
(* record Unwritten, and assigning to it behaves like any assignment.      *)
(***************************************************************************)
EXTENDS Integers, Sequences, FiniteSets, Bags, TLC

\* ------------------------------------------------------------------ bounds
MaxCapacity == 4      \* largest LockFreeQueue capacity constructed
MaxPushes   == 4      \* push calls made by the free-running producer
MaxPoolSize == 3      \* largest MemoryPool a direct client works on
PipeCapacity == 3     \* pool size and queue capacity of the pipeline
MaxSleeps   == 6      \* sleeps of the idle consumer that are followed
MaxFeeds    == 1      \* records pushed to the otherwise idle consumer
TwoPopCapacity == 2   \* capacity of the queue two threads pop from
TwoPopPushes == 2     \* push calls made while two threads pop
MaxDeliveries == 3    \* deliveries after which no further pop is called

\* --------------------------------------------------------------- constants
NullPtr == 0
NumBatches == 10      \* generateData: batches the producer emits
BatchSize == 3        \* generateData: records per batch
LowThreshold == 10000     \* processData: below it a failed poll spins
HighThreshold == 100000   \* processData: below it a failed poll yields
SleepBaseUs == 10         \* processData: the first sleep, in microseconds
SleepCapUs == 100         \* processData: the longest sleep
MaxSleepStep == 4         \* processData: sleep_count stops growing here
EmptyCountReset == 10000  \* processData: empty_count after a sleep

VARIABLES
    \* MemoryPool
    free_list_,      \* sequence of free slot addresses (back = last element)
    size_,           \* number of slots of the pool
    held,            \* handles a direct client of the pool holds, oldest first
    a_ret,           \* what the last allocate() call returned
    leaked,          \* handles a failed queue constructor took and dropped
    q_state,         \* "none": no LockFreeQueue exists, "live": one does
    \* LockFreeQueue
    buffer,          \* ring position (0..capacity-1) -> slot address
    capacity,
    head,
    tail,
    mem,             \* slot address -> MarketData stored there
    \* the thread inside push
    p_pc,            \* position inside push, "idle" outside, "ret" on return
    p_item,          \* push's argument
    current_tail,
    next_tail,
    p_head,          \* the value head.load returned to push
    p_ret,           \* push's return value
    \* the thread inside pop
    c_pc,            \* position inside pop, "idle" outside, "ret" on return
    c_item,          \* pop's output argument (the caller's record)
    current_head,
    c_tail,          \* the value tail.load returned to pop
    c_ret,           \* pop's return value
    \* history (not program state)
    pushed,          \* records whose push returned true, in order
    popped,          \* records returned by successful pops, in order
    pushLog,         \* one entry per returned push of the free-running producer
    p_count,         \* items stored when push loaded head
    c_count,         \* items stored when pop loaded tail
    p_pops0,         \* successful pops completed when push was called
    processed,       \* records the consumer loop has logged as processed
    p_failed,        \* the producer loop ended in a catch block
    c_failed,        \* the consumer loop ended in a catch block
    \* MarketDataParser
    running,
    packet_count,
    s_pc,            \* the controller: constructed, started, inside stop, ...
    \* generateData (producer thread)
    g_pc,
    batch,
    item_idx,        \* position of `data' in batch_data, 1..BatchSize
    items_pushed,
    \* processData (consumer thread)
    d_pc,
    processed_count,
    empty_count,
    yield_count,
    sleep_count,
    polls,           \* history: failed polls since the last successful pop
    last_pause,      \* history: what the last failed poll did
    sleep_log,       \* history: durations of the sleeps since the last pop
    \* processNext (a thread that calls it while the consumer runs)
    n_pc,            \* position inside processNext's pop, "idle" outside
    n_item,          \* processNext's output argument
    n_head,          \* current_head of that pop
    n_tail,          \* the value tail.load returned to that pop
    n_ret            \* its return value

poolVars  == <<free_list_, size_, held, a_ret, leaked, q_state>>
ringVars  == <<buffer, capacity, head, tail, mem>>
pushVars  == <<p_pc, p_item, current_tail, next_tail, p_head, p_ret>>
popVars   == <<c_pc, c_item, current_head, c_tail, c_ret>>
histVars  == <<pushed, popped, pushLog, p_count, c_count, p_pops0>>
ctrlVars  == <<running, s_pc>>
genVars   == <<g_pc, batch, item_idx, items_pushed, packet_count, p_failed>>
procVars  == <<d_pc, processed_count, processed, c_failed>>
idleVars  == <<empty_count, yield_count, sleep_count, polls, last_pause,
              sleep_log>>
pipeVars  == <<ctrlVars, genVars, procVars, idleVars>>
nextVars  == <<n_pc, n_item, n_head, n_tail, n_ret>>
vars      == <<poolVars, ringVars, pushVars, popVars, histVars, pipeVars,
              nextVars>>

\* ------------------------------------------------------------- MarketData
Rec(s, n)  == [symbol |-> s, num |-> n]
Unwritten  == Rec(-1, -1)     \* raw pool storage never assigned
Blank      == Rec(0, 0)       \* a caller's record before any pop filled it
Item(k)    == Rec(k, k)       \* the k-th record a producer makes

\* ------------------------------------------------------------- MemoryPool
\* MemoryPool::MemoryPool: the free list holds every slot, in address order.
PoolInit(size) == [i \in 1..size |-> i]

\* MemoryPool::allocate: the handle returned and the free list left
\* (mutant: the handle is not taken off the free list).
AllocPtr(fl)  == IF Len(fl) = 0 THEN NullPtr ELSE fl[Len(fl)]
AllocRest_NoPop(fl) == fl
AllocRest(fl) == IF Len(fl) = 0 THEN fl ELSE SubSeq(fl, 1, Len(fl) - 1)

\* MemoryPool::deallocate: the free list after deallocate(ptr)
\* (mutant: the null test is missing).
Dealloc_NoNullTest(fl, ptr) == Append(fl, ptr)
Dealloc(fl, ptr) == IF ptr # NullPtr THEN Append(fl, ptr) ELSE fl

\* ---------------------------------------------------------- LockFreeQueue
\* LockFreeQueue::LockFreeQueue: the loop that fills buffer[i], i = 0..cap-1.
\* It stops at the first allocate() that returns null (the throw).  The
\* result is the buffer filled so far, the free list left and whether the
\* constructor completed.
\* (mutant: before it throws, the constructor returns the slots it took)
RECURSIVE ConstructLoop_Rollback(_, _, _, _)
ConstructLoop_Rollback(i, cap, buf, fl) ==
    IF i = cap THEN [ok |-> TRUE, buffer |-> buf, free |-> fl]
    ELSE LET ptr == AllocPtr(fl)
         IN IF ptr = NullPtr
            THEN [ok |-> FALSE,
                  buffer |-> [j \in 0..(cap - 1) |-> NullPtr],
                  free |-> AllocRest(fl) \o [k \in 1..i |-> buf[k - 1]]]
            ELSE ConstructLoop_Rollback(i + 1, cap, [buf EXCEPT ![i] = ptr],
                                        AllocRest(fl))

\* (mutant: the null test of line 30 is missing)
RECURSIVE ConstructLoop_NoThrow(_, _, _, _)
ConstructLoop_NoThrow(i, cap, buf, fl) ==
    IF i = cap THEN [ok |-> TRUE, buffer |-> buf, free |-> fl]
    ELSE ConstructLoop_NoThrow(i + 1, cap, [buf EXCEPT ![i] = AllocPtr(fl)],
                               AllocRest(fl))
RECURSIVE ConstructLoop(_, _, _, _)
ConstructLoop(i, cap, buf, fl) ==
    IF i = cap THEN [ok |-> TRUE, buffer |-> buf, free |-> fl]
    ELSE LET ptr == AllocPtr(fl)
             b2  == [buf EXCEPT ![i] = ptr]
         IN IF ptr = NullPtr
            THEN [ok |-> FALSE, buffer |-> b2, free |-> AllocRest(fl)]
            ELSE ConstructLoop(i + 1, cap, b2, AllocRest(fl))

QueueConstruct(cap, fl) ==
    ConstructLoop(0, cap, [i \in 0..(cap - 1) |-> NullPtr], fl)

\* LockFreeQueue::~LockFreeQueue: the free list after deallocate(buffer[i]) for
\* i = 0..cap-1, in this order.
\* (mutant: every iteration returns buffer[0])
RECURSIVE DestructLoop_SameSlot(_, _, _, _)
DestructLoop_SameSlot(i, cap, buf, fl) ==
    IF i = cap THEN fl
    ELSE DestructLoop_SameSlot(i + 1, cap, buf, Dealloc(fl, buf[0]))
RECURSIVE DestructLoop(_, _, _, _)
DestructLoop(i, cap, buf, fl) ==
    IF i = cap THEN fl
    ELSE DestructLoop(i + 1, cap, buf, Dealloc(fl, buf[i]))

\* push line 54 (mutant: the producer skips a ring position)
NextTail_Skip(t, cap) == (t + 2) % cap
NextTail(t, cap) == (t + 1) % cap
\* push line 56: the full test (mutants: no test; test against head + 1)
IsFull_Never(nt, h) == FALSE
IsFull_OffByOne(nt, h) == nt = h + 1
IsFull(nt, h) == nt = h
\* pop line 75: the empty test (mutant: no test)
IsEmpty_Never(h, t) == FALSE
IsEmpty(h, t) == h = t
\* pop line 80 (mutants: head is not advanced; head moves backwards)
NextHead_Stuck(h, cap) == h % cap
NextHead_Back(h, cap) == (h + cap - 1) % cap
NextHead(h, cap) == (h + 1) % cap

\* Number of items the ring holds, from the history.
Stored == Len(pushed) - Len(popped)

\* ---- push, one step per load, member copy and store ----
PushLoadTail ==
    /\ p_pc = "load_tail"
    /\ current_tail' = tail
    /\ next_tail' = NextTail(tail, capacity)
    /\ p_pc' = "load_head"
    /\ UNCHANGED <<p_item, p_head, p_ret>>
    /\ UNCHANGED <<poolVars, ringVars, popVars, histVars>>
    /\ UNCHANGED pipeVars
    /\ UNCHANGED nextVars

\* (mutant: the record is copied into the slot before the full test)
PushLoadHead_StoreFirst ==
    /\ p_pc = "load_head"
    /\ p_head' = head
    /\ p_count' = Stored
    /\ mem' = [mem EXCEPT ![buffer[current_tail]] = p_item]
    /\ IF IsFull(next_tail, head)
       THEN /\ p_pc' = "ret"
            /\ p_ret' = FALSE
       ELSE /\ p_pc' = "write_symbol"
            /\ UNCHANGED p_ret
    /\ UNCHANGED <<p_item, current_tail, next_tail>>
    /\ UNCHANGED <<pushed, popped, pushLog, c_count, p_pops0>>
    /\ UNCHANGED <<buffer, capacity, head, tail>>
    /\ UNCHANGED <<poolVars, popVars>>
    /\ UNCHANGED pipeVars
    /\ UNCHANGED nextVars

\* lines 56-58: head.load and the full test.
PushLoadHead ==
    /\ p_pc = "load_head"
    /\ p_head' = head
    /\ p_count' = Stored
    /\ IF IsFull(next_tail, head)
       THEN /\ p_pc' = "ret"
            /\ p_ret' = FALSE
       ELSE /\ p_pc' = "write_symbol"
            /\ UNCHANGED p_ret
    /\ UNCHANGED <<p_item, current_tail, next_tail>>
    /\ UNCHANGED <<pushed, popped, pushLog, c_count, p_pops0>>
    /\ UNCHANGED <<poolVars, ringVars, popVars>>
    /\ UNCHANGED pipeVars
    /\ UNCHANGED nextVars

PushWriteSymbol ==
    /\ p_pc = "write_symbol"
    /\ mem' = [mem EXCEPT ![buffer[current_tail]].symbol = p_item.symbol]
    /\ p_pc' = "write_rest"
    /\ UNCHANGED <<p_item, current_tail, next_tail, p_head, p_ret>>
    /\ UNCHANGED <<buffer, capacity, head, tail>>
    /\ UNCHANGED <<poolVars, popVars, histVars>>
    /\ UNCHANGED pipeVars
    /\ UNCHANGED nextVars

PushWriteRest ==
    /\ p_pc = "write_rest"
    /\ mem' = [mem EXCEPT ![buffer[current_tail]].num = p_item.num]
    /\ p_pc' = "store_tail"
    /\ UNCHANGED <<p_item, current_tail, next_tail, p_head, p_ret>>
    /\ UNCHANGED <<buffer, capacity, head, tail>>
    /\ UNCHANGED <<poolVars, popVars, histVars>>
    /\ UNCHANGED pipeVars
    /\ UNCHANGED nextVars

PushStoreTail ==
    /\ p_pc = "store_tail"
    /\ tail' = next_tail
    /\ p_pc' = "ret"
    /\ p_ret' = TRUE
    /\ pushed' = Append(pushed, p_item)
    /\ UNCHANGED <<p_item, current_tail, next_tail, p_head>>
    /\ UNCHANGED <<buffer, capacity, head, mem>>
    /\ UNCHANGED <<popped, pushLog, p_count, c_count, p_pops0>>
    /\ UNCHANGED <<poolVars, popVars>>
    /\ UNCHANGED pipeVars
    /\ UNCHANGED nextVars

PushStep ==
    \/ PushLoadTail
    \/ PushLoadHead
    \/ PushWriteSymbol
    \/ PushWriteRest
    \/ PushStoreTail

\* ---- pop, one step per load, member copy and store ----
PopLoadHead ==
    /\ c_pc = "load_head"
    /\ current_head' = head
    /\ c_pc' = "load_tail"
    /\ UNCHANGED <<c_item, c_tail, c_ret>>
    /\ UNCHANGED <<poolVars, ringVars, pushVars, histVars>>
    /\ UNCHANGED pipeVars
    /\ UNCHANGED nextVars

PopLoadTail ==
    /\ c_pc = "load_tail"
    /\ c_tail' = tail
    /\ c_count' = Stored
    /\ IF IsEmpty(current_head, tail)
       THEN /\ c_pc' = "ret"
            /\ c_ret' = FALSE
       ELSE /\ c_pc' = "read_symbol"
            /\ UNCHANGED c_ret
    /\ UNCHANGED <<c_item, current_head>>
    /\ UNCHANGED <<pushed, popped, pushLog, p_count, p_pops0>>
    /\ UNCHANGED <<poolVars, ringVars, pushVars>>
    /\ UNCHANGED pipeVars
    /\ UNCHANGED nextVars

PopReadSymbol ==
    /\ c_pc = "read_symbol"
    /\ c_item' = [c_item EXCEPT !.symbol = mem[buffer[current_head]].symbol]
    /\ c_pc' = "read_rest"
    /\ UNCHANGED <<current_head, c_tail, c_ret>>
    /\ UNCHANGED <<poolVars, ringVars, pushVars, histVars>>
    /\ UNCHANGED pipeVars
    /\ UNCHANGED nextVars

PopReadRest ==
    /\ c_pc = "read_rest"
    /\ c_item' = [c_item EXCEPT !.num = mem[buffer[current_head]].num]
    /\ c_pc' = "store_head"
    /\ UNCHANGED <<current_head, c_tail, c_ret>>
    /\ UNCHANGED <<poolVars, ringVars, pushVars, histVars>>
    /\ UNCHANGED pipeVars
    /\ UNCHANGED nextVars

PopStoreHead ==
    /\ c_pc = "store_head"
    /\ head' = NextHead(current_head, capacity)
    /\ c_pc' = "ret"
    /\ c_ret' = TRUE
    /\ popped' = Append(popped, c_item)
    /\ UNCHANGED <<c_item, current_head, c_tail>>
    /\ UNCHANGED <<buffer, capacity, tail, mem>>
    /\ UNCHANGED <<pushed, pushLog, p_count, c_count, p_pops0>>
    /\ UNCHANGED <<poolVars, pushVars>>
    /\ UNCHANGED pipeVars
    /\ UNCHANGED nextVars

PopStep ==
    \/ PopLoadHead
    \/ PopLoadTail
    \/ PopReadSymbol
    \/ PopReadRest
    \/ PopStoreHead

\* ------------------------------------------------ free-running SPSC usage
\* One producer thread that calls push, one consumer thread that calls pop,
\* as in Benchmark::run_lock_free_queue.  The k-th call pushes Item(k): push
\* and pop only copy the record, so distinct records show every loss,
\* duplication and reordering.
ProducerCall ==
    /\ p_pc = "idle"
    /\ Len(pushLog) < MaxPushes
    /\ p_item' = Item(Len(pushLog) + 1)
    /\ p_pc' = "load_tail"
    /\ p_pops0' = Len(popped)
    /\ UNCHANGED <<current_tail, next_tail, p_head, p_ret>>
    /\ UNCHANGED <<pushed, popped, pushLog, p_count, c_count>>
    /\ UNCHANGED <<poolVars, ringVars, popVars>>
    /\ UNCHANGED pipeVars
    /\ UNCHANGED nextVars

ProducerReturn ==
    /\ p_pc = "ret"
    /\ p_pc' = "idle"
    /\ pushLog' = Append(pushLog, [ok |-> p_ret, pops0 |-> p_pops0,
                                   pops1 |-> Len(popped),
                                   succ0 |-> Len(pushed) - (IF p_ret THEN 1 ELSE 0)])
    /\ UNCHANGED <<p_item, current_tail, next_tail, p_head, p_ret>>
    /\ UNCHANGED <<pushed, popped, p_count, c_count, p_pops0>>
    /\ UNCHANGED <<poolVars, ringVars, popVars>>
    /\ UNCHANGED pipeVars
    /\ UNCHANGED nextVars

ConsumerCall ==
    /\ c_pc = "idle"
    /\ c_pc' = "load_head"
    /\ UNCHANGED <<c_item, current_head, c_tail, c_ret>>
    /\ UNCHANGED <<poolVars, ringVars, pushVars, histVars>>
    /\ UNCHANGED pipeVars
    /\ UNCHANGED nextVars

ConsumerReturn ==
    /\ c_pc = "ret"
    /\ c_pc' = "idle"
    /\ UNCHANGED <<c_item, current_head, c_tail, c_ret>>
    /\ UNCHANGED <<poolVars, ringVars, pushVars, histVars>>
    /\ UNCHANGED pipeVars
    /\ UNCHANGED nextVars

\* --------------------------------------------------------- initial states
PushIdle ==
    /\ p_pc = "idle"
    /\ p_item = Blank
    /\ current_tail = 0
    /\ next_tail = 0
    /\ p_head = 0
    /\ p_ret = FALSE

PopIdle ==
    /\ c_pc = "idle"
    /\ c_item = Blank
    /\ current_head = 0
    /\ c_tail = 0
    /\ c_ret = FALSE

NextIdle ==
    /\ n_pc = "idle"
    /\ n_item = Blank
    /\ n_head = 0
    /\ n_tail = 0
    /\ n_ret = FALSE

HistEmpty ==
    /\ pushed = <<>>
    /\ popped = <<>>
    /\ pushLog = <<>>
    /\ p_count = 0
    /\ c_count = 0
    /\ p_pops0 = 0

\* MarketDataParser::MarketDataParser: running(false), packet_count(0), no
\* thread launched.
PipeIdle ==
    /\ running = FALSE
    /\ packet_count = 0
    /\ s_pc = "constructed"
    /\ g_pc = "not_started"
    /\ batch = 0
    /\ item_idx = 0
    /\ items_pushed = 0
    /\ p_failed = FALSE
    /\ d_pc = "not_started"
    /\ processed_count = 0
    /\ processed = <<>>
    /\ c_failed = FALSE
    /\ empty_count = 0
    /\ yield_count = 0
    /\ sleep_count = 0
    /\ polls = 0
    /\ last_pause = "none"
    /\ sleep_log = <<>>

\* MemoryPool pool(size); LockFreeQueue queue(cap, pool): the state when both
\* constructors have completed.
Constructed(size, cap) ==
    LET q == QueueConstruct(cap, PoolInit(size))
    IN /\ q.ok
       /\ size_ = size
       /\ free_list_ = q.free
       /\ held = <<>>
       /\ a_ret = NullPtr
       /\ leaked = <<>>
       /\ q_state = "live"
       /\ buffer = q.buffer
       /\ capacity = cap
       /\ head = 0
       /\ tail = 0
       /\ mem = [a \in 1..size |-> Unwritten]

Init ==
    /\ \E cap \in 1..MaxCapacity : Constructed(cap, cap)
    /\ PushIdle
    /\ PopIdle
    /\ NextIdle
    /\ HistEmpty
    /\ PipeIdle

Next ==
    \/ ProducerCall
    \/ PushStep
    \/ ProducerReturn
    \/ ConsumerCall
    \/ PopStep
    \/ ConsumerReturn

Spec == Init /\ [][Next]_vars

\* ======================================================= MemoryPool usage
\* A single-threaded client of a pool: allocate(), deallocate(h) of a handle it
\* holds (each handle returned once), deallocate(nullptr), and construction and
\* destruction of a LockFreeQueue over the pool.
RemoveAt(s, i) == SubSeq(s, 1, i - 1) \o SubSeq(s, i + 1, Len(s))

Allocate ==
    /\ a_ret' = AllocPtr(free_list_)
    /\ free_list_' = AllocRest(free_list_)
    /\ held' = IF AllocPtr(free_list_) = NullPtr THEN held
               ELSE Append(held, AllocPtr(free_list_))
    /\ UNCHANGED <<size_, leaked, q_state>>
    /\ UNCHANGED <<ringVars, pushVars, popVars, histVars>>
    /\ UNCHANGED pipeVars
    /\ UNCHANGED nextVars

Deallocate ==
    /\ \E i \in 1..Len(held) :
          /\ free_list_' = Dealloc(free_list_, held[i])
          /\ held' = RemoveAt(held, i)
    /\ UNCHANGED <<size_, a_ret, leaked, q_state>>
    /\ UNCHANGED <<ringVars, pushVars, popVars, histVars>>
    /\ UNCHANGED pipeVars
    /\ UNCHANGED nextVars

DeallocateNull ==
    /\ free_list_' = Dealloc(free_list_, NullPtr)
    /\ UNCHANGED <<size_, held, a_ret, leaked, q_state>>
    /\ UNCHANGED <<ringVars, pushVars, popVars, histVars>>
    /\ UNCHANGED pipeVars
    /\ UNCHANGED nextVars

\* LockFreeQueue queue(cap, pool).  When the constructor throws, no queue
\* exists and the slots it had taken are in nobody's hands.
ConstructQueue ==
    /\ q_state = "none"
    /\ \E cap \in 1..MaxCapacity :
          LET q == QueueConstruct(cap, free_list_)
          IN /\ free_list_' = q.free
             /\ IF q.ok
                THEN /\ q_state' = "live"
                     /\ buffer' = q.buffer
                     /\ capacity' = cap
                     /\ UNCHANGED leaked
                ELSE /\ leaked' = leaked \o
                          [k \in 1..Cardinality({i \in 0..(cap - 1) :
                                                   q.buffer[i] # NullPtr})
                             |-> q.buffer[k - 1]]
                     /\ UNCHANGED <<q_state, buffer, capacity>>
    /\ head' = 0
    /\ tail' = 0
    /\ UNCHANGED <<size_, held, a_ret, mem>>
    /\ UNCHANGED <<pushVars, popVars, histVars>>
    /\ UNCHANGED pipeVars
    /\ UNCHANGED nextVars

\* ~LockFreeQueue
DestroyQueue ==
    /\ q_state = "live"
    /\ free_list_' = DestructLoop(0, capacity, buffer, free_list_)
    /\ q_state' = "none"
    /\ buffer' = <<>>
    /\ capacity' = 0
    /\ UNCHANGED <<size_, held, a_ret, leaked, head, tail, mem>>
    /\ UNCHANGED <<pushVars, popVars, histVars>>
    /\ UNCHANGED pipeVars
    /\ UNCHANGED nextVars

InitPool ==
    /\ \E size \in 0..MaxPoolSize :
          /\ size_ = size
          /\ free_list_ = PoolInit(size)
          /\ mem = [a \in 1..size |-> Unwritten]
    /\ held = <<>>
    /\ a_ret = NullPtr
    /\ leaked = <<>>
    /\ q_state = "none"
    /\ buffer = <<>>
    /\ capacity = 0
    /\ head = 0
    /\ tail = 0
    /\ PushIdle
    /\ PopIdle
    /\ NextIdle
    /\ HistEmpty
    /\ PipeIdle

NextPool ==
    \/ Allocate
    \/ Deallocate
    \/ DeallocateNull
    \/ ConstructQueue
    \/ DestroyQueue

SpecPool == InitPool /\ [][NextPool]_vars

\* ===================================================== MarketDataParser
\* The controller thread (main: start, stop, destructor), the producer thread
\* (generateData) and the consumer thread (processData).  A sleep or a yield
\* is a step that changes nothing but the position; the scheduler may run
\* the other threads for any time in between.  Each read or write of
\* `running' and each step of push and pop is a step of its own.

\* generateData lines 97-101: record `i' of batch `b'.
BatchItem(b, i) == Rec(i, b)

\* ---- controller ----
\* start()
Start ==
    /\ s_pc = "constructed"
    /\ running' = TRUE
    /\ packet_count' = 0
    /\ g_pc' = "affinity"
    /\ d_pc' = "affinity"
    /\ s_pc' = "started"
    /\ UNCHANGED <<batch, item_idx, items_pushed, p_failed>>
    /\ UNCHANGED <<processed_count, processed, c_failed, idleVars>>
    /\ UNCHANGED <<poolVars, ringVars, pushVars, popVars, histVars>>
    /\ UNCHANGED nextVars

\* stop() is entered and sleeps 1100 ms.
StopCall ==
    /\ s_pc = "started"
    /\ s_pc' = "stop_sleep"
    /\ UNCHANGED <<running, genVars, procVars, idleVars>>
    /\ UNCHANGED <<poolVars, ringVars, pushVars, popVars, histVars>>
    /\ UNCHANGED nextVars

\* running = false, then the 100 ms sleep.
StopClearRunning ==
    /\ s_pc = "stop_sleep"
    /\ running' = FALSE
    /\ s_pc' = "join_producer"
    /\ UNCHANGED <<genVars, procVars, idleVars>>
    /\ UNCHANGED <<poolVars, ringVars, pushVars, popVars, histVars>>
    /\ UNCHANGED nextVars

\* producerThread.join() returns once generateData has returned.
StopJoinProducer ==
    /\ s_pc = "join_producer"
    /\ g_pc = "exited"
    /\ s_pc' = "join_consumer"
    /\ UNCHANGED <<running, genVars, procVars, idleVars>>
    /\ UNCHANGED <<poolVars, ringVars, pushVars, popVars, histVars>>
    /\ UNCHANGED nextVars

\* consumerThread.join() returns once processData has returned; stop() returns.
StopJoinConsumer ==
    /\ s_pc = "join_consumer"
    /\ d_pc = "exited"
    /\ s_pc' = "stopped"
    /\ UNCHANGED <<running, genVars, procVars, idleVars>>
    /\ UNCHANGED <<poolVars, ringVars, pushVars, popVars, histVars>>
    /\ UNCHANGED nextVars

\* (mutant: the destructor does not call stop(); the members are destroyed
\* while the threads run)
Destroy_NoStop ==
    /\ s_pc \in {"started", "stopped"}
    /\ running' = FALSE
    /\ s_pc' = "destroyed"
    /\ free_list_' = DestructLoop(0, capacity, buffer, free_list_)
    /\ q_state' = "none"
    /\ buffer' = <<>>
    /\ capacity' = 0
    /\ UNCHANGED <<size_, held, a_ret, leaked, head, tail, mem>>
    /\ UNCHANGED <<genVars, procVars, idleVars>>
    /\ UNCHANGED <<pushVars, popVars, histVars>>
    /\ UNCHANGED nextVars

\* ~MarketDataParser after main's stop(): stop() again (no thread is joinable),
\* then ~LockFreeQueue returns the slots to the pool.
Destroy ==
    /\ s_pc = "stopped"
    /\ running' = FALSE
    /\ s_pc' = "destroyed"
    /\ free_list_' = DestructLoop(0, capacity, buffer, free_list_)
    /\ q_state' = "none"
    /\ buffer' = <<>>
    /\ capacity' = 0
    /\ UNCHANGED <<size_, held, a_ret, leaked, head, tail, mem>>
    /\ UNCHANGED <<genVars, procVars, idleVars>>
    /\ UNCHANGED <<pushVars, popVars, histVars>>
    /\ UNCHANGED nextVars

StopStep ==
    \/ StopClearRunning
    \/ StopJoinProducer
    \/ StopJoinConsumer

\* ---- generateData ----
\* lines 82-84, 92-93: pinning succeeded.
ProducerAffinity ==
    /\ g_pc = "affinity"
    /\ items_pushed' = 0
    /\ g_pc' = "for_test"
    /\ UNCHANGED <<batch, item_idx, packet_count, p_failed>>
    /\ UNCHANGED <<ctrlVars, procVars, idleVars>>
    /\ UNCHANGED <<poolVars, ringVars, pushVars, popVars, histVars>>
    /\ UNCHANGED nextVars

\* lines 85-90: setThreadAffinity threw.
ProducerAffinityFail ==
    /\ g_pc = "affinity"
    /\ running' = FALSE
    /\ p_failed' = TRUE
    /\ g_pc' = "exited"
    /\ UNCHANGED <<batch, item_idx, items_pushed, packet_count>>
    /\ UNCHANGED <<s_pc, procVars, idleVars>>
    /\ UNCHANGED <<poolVars, ringVars, pushVars, popVars, histVars>>
    /\ UNCHANGED nextVars

\* line 96: batch < 10 && running, then lines 97-105 up to the first record.
ProducerForTest ==
    /\ g_pc = "for_test"
    /\ IF batch < NumBatches /\ running
       THEN /\ item_idx' = 1
            /\ g_pc' = "push_call"
       ELSE /\ g_pc' = "exited"
            /\ UNCHANGED item_idx
    /\ UNCHANGED <<batch, items_pushed, packet_count, p_failed>>
    /\ UNCHANGED <<ctrlVars, procVars, idleVars>>
    /\ UNCHANGED <<poolVars, ringVars, pushVars, popVars, histVars>>
    /\ UNCHANGED nextVars

\* lines 121-124: an exception inside the loop (building batch_data or a log
\* line failed): running = false and the loop is left.
ProducerThrow ==
    /\ g_pc = "push_call"
    /\ running' = FALSE
    /\ p_failed' = TRUE
    /\ g_pc' = "exited"
    /\ UNCHANGED <<batch, item_idx, items_pushed, packet_count>>
    /\ UNCHANGED <<s_pc, procVars, idleVars>>
    /\ UNCHANGED <<poolVars, ringVars, pushVars, popVars, histVars>>
    /\ UNCHANGED nextVars

\* line 106: dataQueue.push(data) is entered.
ProducerPushCall ==
    /\ g_pc = "push_call"
    /\ p_pc = "idle"
    /\ p_item' = BatchItem(batch, item_idx)
    /\ p_pc' = "load_tail"
    /\ g_pc' = "in_push"
    /\ UNCHANGED <<current_tail, next_tail, p_head, p_ret>>
    /\ UNCHANGED <<batch, item_idx, items_pushed, packet_count, p_failed>>
    /\ UNCHANGED <<ctrlVars, procVars, idleVars>>
    /\ UNCHANGED <<poolVars, ringVars, popVars, histVars>>
    /\ UNCHANGED nextVars

\* (mutant: the retry loop does not test `running')
ProducerPushReturn_NoRunningTest ==
    /\ g_pc = "in_push"
    /\ p_pc = "ret"
    /\ p_pc' = "idle"
    /\ g_pc' = IF ~p_ret THEN "push_call" ELSE "check_running"
    /\ UNCHANGED <<p_item, current_tail, next_tail, p_head, p_ret>>
    /\ UNCHANGED <<batch, item_idx, items_pushed, packet_count, p_failed>>
    /\ UNCHANGED <<ctrlVars, procVars, idleVars>>
    /\ UNCHANGED <<poolVars, ringVars, popVars, histVars>>
    /\ UNCHANGED nextVars

\* lines 106-109: push returned; on false, `running' is read and the push is
\* retried after a 1 us sleep while it is true.
ProducerPushReturn ==
    /\ g_pc = "in_push"
    /\ p_pc = "ret"
    /\ p_pc' = "idle"
    /\ g_pc' = IF ~p_ret /\ running THEN "push_call" ELSE "check_running"
    /\ UNCHANGED <<p_item, current_tail, next_tail, p_head, p_ret>>
    /\ UNCHANGED <<batch, item_idx, items_pushed, packet_count, p_failed>>
    /\ UNCHANGED <<ctrlVars, procVars, idleVars>>
    /\ UNCHANGED <<poolVars, ringVars, popVars, histVars>>
    /\ UNCHANGED nextVars

\* lines 110-115: if (!running) break; else the record is logged as pushed,
\* ++items_pushed, and the inner loop goes to the next record.
ProducerCheckRunning ==
    /\ g_pc = "check_running"
    /\ IF ~running
       THEN /\ g_pc' = "batch_end"
            /\ UNCHANGED <<item_idx, items_pushed>>
       ELSE /\ items_pushed' = items_pushed + 1
            /\ IF item_idx < BatchSize
               THEN /\ item_idx' = item_idx + 1
                    /\ g_pc' = "push_call"
               ELSE /\ g_pc' = "batch_end"
                    /\ UNCHANGED item_idx
    /\ UNCHANGED <<batch, packet_count, p_failed>>
    /\ UNCHANGED <<ctrlVars, procVars, idleVars>>
    /\ UNCHANGED <<poolVars, ringVars, pushVars, popVars, histVars>>
    /\ UNCHANGED nextVars

\* lines 117-119 and ++batch: ++packet_count, the 100 ms sleep.
ProducerBatchEnd ==
    /\ g_pc = "batch_end"
    /\ packet_count' = packet_count + 1
    /\ batch' = batch + 1
    /\ g_pc' = "for_test"
    /\ UNCHANGED <<item_idx, items_pushed, p_failed>>
    /\ UNCHANGED <<ctrlVars, procVars, idleVars>>
    /\ UNCHANGED <<poolVars, ringVars, pushVars, popVars, histVars>>
    /\ UNCHANGED nextVars

ProducerStep ==
    \/ ProducerAffinity
    \/ ProducerAffinityFail
    \/ ProducerForTest
    \/ ProducerThrow
    \/ ProducerPushCall
    \/ (g_pc = "in_push" /\ PushStep)
    \/ ProducerPushReturn
    \/ ProducerCheckRunning
    \/ ProducerBatchEnd

\* ---- processData ----
\* lines 136-138, 145-150: pinning succeeded.
ConsumerAffinity ==
    /\ d_pc = "affinity"
    /\ processed_count' = 0
    /\ empty_count' = 0
    /\ yield_count' = 0
    /\ sleep_count' = 0
    /\ d_pc' = "while_test"
    /\ UNCHANGED <<processed, c_failed, polls, last_pause, sleep_log>>
    /\ UNCHANGED <<ctrlVars, genVars>>
    /\ UNCHANGED <<poolVars, ringVars, pushVars, popVars, histVars>>
    /\ UNCHANGED nextVars

\* (mutant: the catch block clears running, as the producer's does)
ConsumerAffinityFail_ClearsRunning ==
    /\ d_pc = "affinity"
    /\ c_failed' = TRUE
    /\ d_pc' = "exited"
    /\ running' = FALSE
    /\ UNCHANGED <<processed_count, processed, idleVars>>
    /\ UNCHANGED <<s_pc, genVars>>
    /\ UNCHANGED <<poolVars, ringVars, pushVars, popVars, histVars>>
    /\ UNCHANGED nextVars

\* lines 139-143: setThreadAffinity threw; the function returns.
ConsumerAffinityFail ==
    /\ d_pc = "affinity"
    /\ c_failed' = TRUE
    /\ d_pc' = "exited"
    /\ UNCHANGED <<processed_count, processed, idleVars>>
    /\ UNCHANGED <<ctrlVars, genVars>>
    /\ UNCHANGED <<poolVars, ringVars, pushVars, popVars, histVars>>
    /\ UNCHANGED nextVars

\* lines 153-155 and 182-183: while (running) is tested; pop is entered with
\* a fresh `data', in the main loop when running is true and as the first
\* pop of the drain pass when it is false.
ConsumerWhileTest ==
    /\ d_pc = "while_test"
    /\ c_pc = "idle"
    /\ d_pc' = IF running THEN "in_pop" ELSE "in_drain"
    /\ c_item' = Blank
    /\ c_pc' = "load_head"
    /\ UNCHANGED <<current_head, c_tail, c_ret>>
    /\ UNCHANGED <<processed_count, processed, c_failed, idleVars>>
    /\ UNCHANGED <<ctrlVars, genVars>>
    /\ UNCHANGED <<poolVars, ringVars, pushVars, histVars>>
    /\ UNCHANGED nextVars

\* lines 155-162: pop returned true; the record is logged, ++processed_count
\* and the idle counters are reset.
ConsumerPopHit ==
    /\ d_pc = "in_pop"
    /\ c_pc = "ret"
    /\ c_ret
    /\ processed' = Append(processed, c_item)
    /\ processed_count' = processed_count + 1
    /\ empty_count' = 0
    /\ yield_count' = 0
    /\ sleep_count' = 0
    /\ polls' = 0
    /\ last_pause' = "none"
    /\ sleep_log' = <<>>
    /\ c_pc' = "idle"
    /\ d_pc' = "while_test"
    /\ UNCHANGED <<c_item, current_head, c_tail, c_ret, c_failed>>
    /\ UNCHANGED <<ctrlVars, genVars>>
    /\ UNCHANGED <<poolVars, ringVars, pushVars, histVars>>
    /\ UNCHANGED nextVars

\* lines 163-178 as far as control goes: pop returned false; after the pause
\* the ladder prescribes (none, a yield or a sleep) the loop tests `running'
\* again.  The ladder's counters decide only the length of the pause; they
\* are followed by IdlePoll in SpecBackoff and left alone here.
ConsumerPopMiss ==
    /\ d_pc = "in_pop"
    /\ c_pc = "ret"
    /\ ~c_ret
    /\ c_pc' = "idle"
    /\ d_pc' = "while_test"
    /\ UNCHANGED <<c_item, current_head, c_tail, c_ret>>
    /\ UNCHANGED <<processed_count, processed, c_failed, idleVars>>
    /\ UNCHANGED <<ctrlVars, genVars>>
    /\ UNCHANGED <<poolVars, ringVars, pushVars, histVars>>
    /\ UNCHANGED nextVars

\* lines 183-188: a pop of the drain pass returned true; the record is logged
\* and pop is entered again.
ConsumerDrainHit ==
    /\ d_pc = "in_drain"
    /\ c_pc = "ret"
    /\ c_ret
    /\ processed' = Append(processed, c_item)
    /\ processed_count' = processed_count + 1
    /\ c_pc' = "load_head"
    /\ UNCHANGED <<c_item, current_head, c_tail, c_ret>>
    /\ UNCHANGED <<d_pc, c_failed, idleVars>>
    /\ UNCHANGED <<ctrlVars, genVars>>
    /\ UNCHANGED <<poolVars, ringVars, pushVars, histVars>>
    /\ UNCHANGED nextVars

\* lines 183, 190-196: a pop of the drain pass returned false; the function
\* logs its totals and returns.
ConsumerDrainDone ==
    /\ d_pc = "in_drain"
    /\ c_pc = "ret"
    /\ ~c_ret
    /\ c_pc' = "idle"
    /\ d_pc' = "exited"
    /\ UNCHANGED <<c_item, current_head, c_tail, c_ret>>
    /\ UNCHANGED <<processed_count, processed, c_failed, idleVars>>
    /\ UNCHANGED <<ctrlVars, genVars>>
    /\ UNCHANGED <<poolVars, ringVars, pushVars, histVars>>
    /\ UNCHANGED nextVars

\* lines 197-200: an exception while a popped record is formatted and logged;
\* the function returns without the drain pass.
ConsumerThrow ==
    /\ d_pc \in {"in_pop", "in_drain"}
    /\ c_pc = "ret"
    /\ c_ret
    /\ c_failed' = TRUE
    /\ c_pc' = "idle"
    /\ d_pc' = "exited"
    /\ UNCHANGED <<c_item, current_head, c_tail, c_ret>>
    /\ UNCHANGED <<processed_count, processed, idleVars>>
    /\ UNCHANGED <<ctrlVars, genVars>>
    /\ UNCHANGED <<poolVars, ringVars, pushVars, histVars>>
    /\ UNCHANGED nextVars

ConsumerStep ==
    \/ ConsumerAffinity
    \/ ConsumerAffinityFail
    \/ ConsumerWhileTest
    \/ (d_pc \in {"in_pop", "in_drain"} /\ PopStep)
    \/ ConsumerPopHit
    \/ ConsumerPopMiss
    \/ ConsumerDrainHit
    \/ ConsumerDrainDone
    \/ ConsumerThrow

\* MarketDataParser parser: pool(n), dataQueue(n, pool), with PipeCapacity
\* for the program's n, so that the thirty records meet a full ring.
InitPipe ==
    /\ Constructed(PipeCapacity, PipeCapacity)
    /\ PushIdle
    /\ PopIdle
    /\ NextIdle
    /\ HistEmpty
    /\ PipeIdle

NextPipe ==
    \/ Start
    \/ StopCall
    \/ StopStep
    \/ Destroy
    \/ ProducerStep
    \/ ConsumerStep

SpecPipe == InitPipe /\ [][NextPipe]_vars

\* The scheduler runs every thread that can take a step; calling stop() is
\* up to the user.
SpecPipeFair ==
    /\ SpecPipe
    /\ WF_vars(StopStep)
    /\ WF_vars(ProducerStep)
    /\ WF_vars(ConsumerStep)

\* ==================================================== the idle consumer
\* The consumer loop of a started pipeline whose channel stays empty: the
\* producer thread is not scheduled and stop() is not called.
\* line 174: std::min(10ULL << sleep_count, 100ULL)
\* (mutant: the shift uses the count after its increment)
RECURSIVE Pow2(_)
Pow2(n) == IF n = 0 THEN 1 ELSE 2 * Pow2(n - 1)
Min(a, b) == IF a < b THEN a ELSE b
SleepUs_ShiftFirst(sc) == Min(SleepBaseUs * Pow2(sc + 1), SleepCapUs)
SleepUs(sc) == Min(SleepBaseUs * Pow2(sc), SleepCapUs)

\* lines 165-169: what a failed poll does once ++empty_count has made
\* empty_count e (mutant: the busy-spin test is missing).
IdlePause_NoSpin(e) ==
    IF e < HighThreshold THEN "yield" ELSE "sleep"
IdlePause(e) ==
    IF e < LowThreshold THEN "spin"
    ELSE IF e < HighThreshold THEN "yield"
    ELSE "sleep"

\* One iteration of while (running) (lines 153-155, 163-178) on an empty
\* channel, in one step, no other thread being scheduled: running is read as
\* true, pop loads head and tail, finds them equal and returns false;
\* ++empty_count; then the loop continues at once, or yields and continues,
\* or (lines 170-177) counts the sleep in yield_count, sleeps, advances
\* sleep_count up to 4 and puts empty_count back to 10000.
IdlePoll ==
    /\ d_pc = "while_test"
    /\ c_pc = "idle"
    /\ running
    /\ IsEmpty(head, tail)
    /\ Len(sleep_log) < MaxSleeps
    /\ c_item' = Blank
    /\ current_head' = head
    /\ c_tail' = tail
    /\ c_ret' = FALSE
    /\ c_count' = Stored
    /\ polls' = polls + 1
    /\ last_pause' = IdlePause(empty_count + 1)
    /\ IF IdlePause(empty_count + 1) = "sleep"
       THEN /\ yield_count' = yield_count + 1
            /\ sleep_log' = Append(sleep_log, SleepUs(sleep_count))
            /\ sleep_count' = IF sleep_count < MaxSleepStep
                              THEN sleep_count + 1 ELSE sleep_count
            /\ empty_count' = EmptyCountReset
       ELSE /\ empty_count' = empty_count + 1
            /\ UNCHANGED <<yield_count, sleep_count, sleep_log>>
    /\ UNCHANGED <<c_pc, d_pc, processed_count, processed, c_failed>>
    /\ UNCHANGED <<pushed, popped, pushLog, p_count, p_pops0>>
    /\ UNCHANGED <<ctrlVars, genVars>>
    /\ UNCHANGED <<poolVars, ringVars, pushVars>>
    /\ UNCHANGED nextVars

\* The ladder's variables after n consecutive failed polls, in closed form:
\* the first sleep is poll HighThreshold, and every sleep puts empty_count
\* back to EmptyCountReset, so the sleeps are LadderPeriod polls apart.
LadderPeriod == HighThreshold - EmptyCountReset
SleepsAt(n) ==
    IF n < HighThreshold THEN 0 ELSE 1 + ((n - HighThreshold) \div LadderPeriod)
EmptyCountAt(n) ==
    IF n < HighThreshold THEN n
    ELSE EmptyCountReset + ((n - HighThreshold) % LadderPeriod)
LadderAt(n) ==
    [empty_count |-> EmptyCountAt(n),
     yield_count |-> SleepsAt(n),
     sleep_count |-> Min(SleepsAt(n), MaxSleepStep),
     polls       |-> n,
     last_pause  |-> IF n = 0 THEN "none"
                     ELSE IF n >= HighThreshold /\ EmptyCountAt(n) = EmptyCountReset
                     THEN "sleep"
                     ELSE IdlePause(EmptyCountAt(n)),
     sleep_log   |-> [k \in 1..SleepsAt(n) |->
                         SleepUs(Min(k - 1, MaxSleepStep))]]
LadderNow ==
    [empty_count |-> empty_count, yield_count |-> yield_count,
     sleep_count |-> sleep_count, polls |-> polls,
     last_pause |-> last_pause, sleep_log |-> sleep_log]

\* Poll counts one short of each rung of the ladder and of each of the
\* first MaxSleeps sleeps.
Checkpoints ==
    {LowThreshold - 1, HighThreshold - 1} \cup
    {HighThreshold + j * LadderPeriod - 1 : j \in 1..(MaxSleeps - 1)}

\* The initial states are the state start() leaves and, so that the runs
\* that reach the later rungs stay short, the states of the same run after n
\* failed polls for n in Checkpoints.  The run that begins with start() is
\* part of the specification; OnTheRun, an invariant of it, says that after
\* n polls this run is in the state LadderAt(n), so every other initial
\* state is a state of that run.
InitBackoff ==
    /\ Constructed(PipeCapacity, PipeCapacity)
    /\ PushIdle
    /\ PopIdle
    /\ NextIdle
    /\ HistEmpty
    /\ running = TRUE
    /\ packet_count = 0
    /\ s_pc = "started"
    /\ g_pc = "affinity"
    /\ batch = 0
    /\ item_idx = 0
    /\ items_pushed = 0
    /\ p_failed = FALSE
    /\ processed_count = 0
    /\ processed = <<>>
    /\ c_failed = FALSE
    /\ \E n \in {0} \cup Checkpoints :
          /\ d_pc = IF n = 0 THEN "affinity" ELSE "while_test"
          /\ empty_count = LadderAt(n).empty_count
          /\ yield_count = LadderAt(n).yield_count
          /\ sleep_count = LadderAt(n).sleep_count
          /\ polls = LadderAt(n).polls
          /\ last_pause = LadderAt(n).last_pause
          /\ sleep_log = LadderAt(n).sleep_log

OnTheRun == d_pc = "while_test" => LadderNow = LadderAt(polls)

\* The moments at which the producer thread gets to push, as numbers of
\* failed polls the consumer has made since its last pop: at the start of an
\* idle run, at each rung of the ladder and right after each sleep, and one
\* poll later.
FeedPolls ==
    {0, 1} \cup {c + 1 : c \in Checkpoints} \cup {c + 2 : c \in Checkpoints}

\* The producer thread is scheduled from where it stands (its start, or the
\* return of its last push) through the return of its next push, in one
\* step: lines 82-105 or 110-114, then push (lines 52-63) on a ring that is
\* not full.  No consumer step is in progress, so the push is not interleaved
\* with a pop.
FeedPush ==
    /\ g_pc \in {"affinity", "check_running"}
    /\ p_pc = "idle"
    /\ running
    /\ polls \in FeedPolls
    /\ Len(pushed) < MaxFeeds
    /\ item_idx < BatchSize
    /\ ~IsFull(NextTail(tail, capacity), head)
    /\ g_pc' = "check_running"
    /\ item_idx' = item_idx + 1
    /\ items_pushed' = IF g_pc = "affinity" THEN 0 ELSE items_pushed + 1
    /\ p_item' = BatchItem(batch, item_idx + 1)
    /\ current_tail' = tail
    /\ next_tail' = NextTail(tail, capacity)
    /\ p_head' = head
    /\ p_ret' = TRUE
    /\ p_count' = Stored
    /\ p_pops0' = Len(popped)
    /\ mem' = [mem EXCEPT ![buffer[tail]] = BatchItem(batch, item_idx + 1)]
    /\ tail' = NextTail(tail, capacity)
    /\ pushed' = Append(pushed, BatchItem(batch, item_idx + 1))
    /\ UNCHANGED <<p_pc, batch, packet_count, p_failed>>
    /\ UNCHANGED <<buffer, capacity, head>>
    /\ UNCHANGED <<popped, pushLog, c_count>>
    /\ UNCHANGED <<ctrlVars, procVars, idleVars>>
    /\ UNCHANGED <<poolVars, popVars>>
    /\ UNCHANGED nextVars

\* One iteration of while (running) (lines 153-162) on a channel that holds
\* a record, in one step: running is read as true, pop copies the record at
\* head and advances head, the record is logged, ++processed_count, and
\* empty_count, yield_count and sleep_count are set to 0
\* (mutant: sleep_count is not reset).
BusyPoll_KeepSleepCount ==
    /\ d_pc = "while_test"
    /\ c_pc = "idle"
    /\ running
    /\ ~IsEmpty(head, tail)
    /\ c_item' = mem[buffer[head]]
    /\ current_head' = head
    /\ c_tail' = tail
    /\ c_ret' = TRUE
    /\ c_count' = Stored
    /\ head' = NextHead(head, capacity)
    /\ popped' = Append(popped, mem[buffer[head]])
    /\ processed' = Append(processed, mem[buffer[head]])
    /\ processed_count' = processed_count + 1
    /\ empty_count' = 0
    /\ yield_count' = 0
    /\ polls' = 0
    /\ last_pause' = "none"
    /\ sleep_log' = <<>>
    /\ UNCHANGED <<c_pc, d_pc, c_failed, sleep_count>>
    /\ UNCHANGED <<buffer, capacity, tail, mem>>
    /\ UNCHANGED <<pushed, pushLog, p_count, p_pops0>>
    /\ UNCHANGED <<ctrlVars, genVars>>
    /\ UNCHANGED <<poolVars, pushVars>>
    /\ UNCHANGED nextVars

BusyPoll ==
    /\ d_pc = "while_test"
    /\ c_pc = "idle"
    /\ running
    /\ ~IsEmpty(head, tail)
    /\ c_item' = mem[buffer[head]]
    /\ current_head' = head
    /\ c_tail' = tail
    /\ c_ret' = TRUE
    /\ c_count' = Stored
    /\ head' = NextHead(head, capacity)
    /\ popped' = Append(popped, mem[buffer[head]])
    /\ processed' = Append(processed, mem[buffer[head]])
    /\ processed_count' = processed_count + 1
    /\ empty_count' = 0
    /\ yield_count' = 0
    /\ sleep_count' = 0
    /\ polls' = 0
    /\ last_pause' = "none"
    /\ sleep_log' = <<>>
    /\ UNCHANGED <<c_pc, d_pc, c_failed>>
    /\ UNCHANGED <<buffer, capacity, tail, mem>>
    /\ UNCHANGED <<pushed, pushLog, p_count, p_pops0>>
    /\ UNCHANGED <<ctrlVars, genVars>>
    /\ UNCHANGED <<poolVars, pushVars>>
    /\ UNCHANGED nextVars

NextBackoff ==
    \/ ConsumerAffinity
    \/ IdlePoll
    \/ FeedPush
    \/ BusyPoll

SpecBackoff == InitBackoff /\ [][NextBackoff]_vars

\* ============================================ processNext beside pop
\* MarketDataParser::processNext (lines 71-73) is dataQueue.pop(data) on the
\* calling thread.  Here a thread calls it again and again while the
\* producer and the consumer of the free-running usage are at work, so two
\* threads can be inside pop at once.  A record processNext delivers is
\* appended to popped like one the consumer delivers.
ProcessNextCall ==
    /\ n_pc = "idle"
    /\ Len(popped) < MaxDeliveries
    /\ n_pc' = "load_head"
    /\ UNCHANGED <<n_item, n_head, n_tail, n_ret>>
    /\ UNCHANGED <<poolVars, ringVars, pushVars, popVars, histVars>>
    /\ UNCHANGED pipeVars

NextLoadHead ==
    /\ n_pc = "load_head"
    /\ n_head' = head
    /\ n_pc' = "load_tail"
    /\ UNCHANGED <<n_item, n_tail, n_ret>>
    /\ UNCHANGED <<poolVars, ringVars, pushVars, popVars, histVars>>
    /\ UNCHANGED pipeVars

NextLoadTail ==
    /\ n_pc = "load_tail"
    /\ n_tail' = tail
    /\ IF IsEmpty(n_head, tail)
       THEN /\ n_pc' = "ret"
            /\ n_ret' = FALSE
       ELSE /\ n_pc' = "read_symbol"
            /\ UNCHANGED n_ret
    /\ UNCHANGED <<n_item, n_head>>
    /\ UNCHANGED <<poolVars, ringVars, pushVars, popVars, histVars>>
    /\ UNCHANGED pipeVars

NextReadSymbol ==
    /\ n_pc = "read_symbol"
    /\ n_item' = [n_item EXCEPT !.symbol = mem[buffer[n_head]].symbol]
    /\ n_pc' = "read_rest"
    /\ UNCHANGED <<n_head, n_tail, n_ret>>
    /\ UNCHANGED <<poolVars, ringVars, pushVars, popVars, histVars>>
    /\ UNCHANGED pipeVars

NextReadRest ==
    /\ n_pc = "read_rest"
    /\ n_item' = [n_item EXCEPT !.num = mem[buffer[n_head]].num]
    /\ n_pc' = "store_head"
    /\ UNCHANGED <<n_head, n_tail, n_ret>>
    /\ UNCHANGED <<poolVars, ringVars, pushVars, popVars, histVars>>
    /\ UNCHANGED pipeVars

\* (mutant: head is stored by compare-and-swap against the value loaded, and
\* the pop reports failure when another thread has moved head)
NextStoreHead_Cas ==
    /\ n_pc = "store_head"
    /\ n_pc' = "ret"
    /\ IF head = n_head
       THEN /\ head' = NextHead(n_head, capacity)
            /\ n_ret' = TRUE
            /\ popped' = Append(popped, n_item)
       ELSE /\ n_ret' = FALSE
            /\ UNCHANGED <<head, popped>>
    /\ UNCHANGED <<n_item, n_head, n_tail>>
    /\ UNCHANGED <<buffer, capacity, tail, mem>>
    /\ UNCHANGED <<pushed, pushLog, p_count, c_count, p_pops0>>
    /\ UNCHANGED <<poolVars, pushVars, popVars>>
    /\ UNCHANGED pipeVars

NextStoreHead ==
    /\ n_pc = "store_head"
    /\ head' = NextHead(n_head, capacity)
    /\ n_pc' = "ret"
    /\ n_ret' = TRUE
    /\ popped' = Append(popped, n_item)
    /\ UNCHANGED <<n_item, n_head, n_tail>>
    /\ UNCHANGED <<buffer, capacity, tail, mem>>
    /\ UNCHANGED <<pushed, pushLog, p_count, c_count, p_pops0>>
    /\ UNCHANGED <<poolVars, pushVars, popVars>>
    /\ UNCHANGED pipeVars

ProcessNextReturn ==
    /\ n_pc = "ret"
    /\ n_pc' = "idle"
    /\ UNCHANGED <<n_item, n_head, n_tail, n_ret>>
    /\ UNCHANGED <<poolVars, ringVars, pushVars, popVars, histVars>>
    /\ UNCHANGED pipeVars

ProcessNextStep ==
    \/ NextLoadHead
    \/ NextLoadTail
    \/ NextReadSymbol
    \/ NextReadRest
    \/ NextStoreHead

\* The consumer of the free-running usage, stopped like processNext once
\* MaxDeliveries records were delivered, and its producer, stopped after
\* TwoPopPushes calls.
BoundedConsumerCall == Len(popped) < MaxDeliveries /\ ConsumerCall
BoundedProducerCall == Len(pushLog) < TwoPopPushes /\ ProducerCall

InitTwoPop ==
    /\ Constructed(TwoPopCapacity, TwoPopCapacity)
    /\ PushIdle
    /\ PopIdle
    /\ NextIdle
    /\ HistEmpty
    /\ PipeIdle

NextTwoPop ==
    \/ BoundedProducerCall
    \/ PushStep
    \/ ProducerReturn
    \/ BoundedConsumerCall
    \/ PopStep
    \/ ConsumerReturn
    \/ ProcessNextCall
    \/ ProcessNextStep
    \/ ProcessNextReturn

SpecTwoPop == InitTwoPop /\ [][NextTwoPop]_vars

\* ======================================================== claims, Spec
Range(s) == {s[i] : i \in DOMAIN s}
Count(s, v) == Cardinality({i \in DOMAIN s : s[i] = v})
IsPrefix(s, t) == Len(s) <= Len(t) /\ \A i \in 1..Len(s) : s[i] = t[i]

\* The records the ring holds, oldest first, read off head, tail and the slots.
RingItems ==
    [k \in 1..((tail - head) % capacity) |->
        mem[buffer[(head + k - 1) % capacity]]]

\* A copy step of push (of pop) is enabled on the slot at current_tail
\* (current_head).
PWriting == p_pc \in {"write_symbol", "write_rest"}
CReading == c_pc \in {"read_symbol", "read_rest"}
\* Ring positions that hold an item not yet released through head.
Occupied == {(head + k) % capacity : k \in 0..(Stored - 1)}

\* C1: in every interleaving of one producer and one consumer, the records
\* pushed with result true are exactly the records popped so far plus the
\* records the ring still holds (each counted once), so no pushed record is
\* lost or delivered twice and no popped record was never pushed.
C1_NoLossNoDuplication ==
    /\ \A v \in Range(pushed) \cup Range(popped) \cup Range(RingItems) :
          Count(pushed, v) = Count(popped, v) + Count(RingItems, v)
    /\ \A i \in 1..Len(popped) : \E j \in 1..Len(pushed) : pushed[j] = popped[i]
    /\ \A i, j \in 1..Len(popped) : popped[i] = popped[j] => i = j

C1_Witness ==
    /\ Len(pushed) = MaxPushes
    /\ popped = pushed
    /\ head = tail

\* C2: the records returned by successful pops are, in order, a prefix of the
\* records whose push returned true.
C2_Fifo == IsPrefix(popped, pushed)

\* Three pushes with no pop, then three pops in push order, then a pop that
\* reports empty.
C2_Witness ==
    /\ Len(pushLog) >= 3
    /\ \A i \in 1..3 : pushLog[i].ok /\ pushLog[i].pops1 = 0
    /\ popped = <<Item(1), Item(2), Item(3)>>
    /\ pushed = popped
    /\ c_pc = "ret"
    /\ ~c_ret

\* C3: producer and consumer never have a copy step enabled on the same slot;
\* the consumer copies only a slot that holds the completely written, published
\* next record; the producer writes only a slot that holds no unreleased item.
C3_NoSlotOverlap ==
    /\ (PWriting /\ CReading) => buffer[current_tail] # buffer[current_head]
    /\ CReading =>
          /\ Stored >= 1
          /\ current_head = head
          /\ mem[buffer[current_head]] = pushed[Len(popped) + 1]
    /\ PWriting =>
          /\ current_tail = tail
          /\ current_tail \notin Occupied

\* Both sides are in the middle of a copy at once (on different slots).
C3_Witness ==
    /\ p_pc = "write_rest"
    /\ c_pc = "read_rest"
    /\ Len(popped) >= 1

LastDelivered == IF popped = <<>> THEN Blank ELSE popped[Len(popped)]

\* C11: a push that returns false has left tail where it read it and its
\* record is in no slot, not even in part; the step on which push finds the
\* ring full, and every step of push before it, changes neither head, tail,
\* the slot assignment nor any slot.  A pop that returns false has left head
\* where it read it and the caller's record as it was; the step on which pop
\* finds the ring empty, and the step before it, changes neither head, tail,
\* the slots nor the caller's record.
C11_BackpressureNoEffect ==
    /\ [](p_pc = "ret" /\ ~p_ret =>
            /\ tail = current_tail
            /\ \A a \in DOMAIN mem :
                  mem[a].symbol # p_item.symbol /\ mem[a].num # p_item.num)
    /\ [](c_pc = "ret" /\ ~c_ret =>
            /\ head = current_head
            /\ c_item = LastDelivered)
    /\ [][(p_pc \in {"load_tail", "load_head"} /\ p_pc' # p_pc) =>
            UNCHANGED <<buffer, capacity, head, tail, mem>>]_vars
    /\ [][(c_pc \in {"load_head", "load_tail"} /\ c_pc' # c_pc) =>
            UNCHANGED <<buffer, capacity, head, tail, mem, c_item>>]_vars

\* A push has failed on a full ring whose slots all hold earlier records,
\* and a pop has failed on an empty ring after having delivered a record.
C11_Witness ==
    /\ p_pc = "ret" /\ ~p_ret /\ p_count = capacity - 1
    /\ c_pc = "ret" /\ ~c_ret /\ Len(popped) >= 1
    /\ c_item = popped[Len(popped)]
    /\ capacity >= 3
\* C15: no step of push changes head and no step of pop changes tail; tail
\* changes only on the last step of a push that returns true, to
\* (tail + 1) mod capacity, and head only on the last step of a pop that
\* returns true, to (head + 1) mod capacity.
C15_SingleWriter ==
    /\ [][PushStep => head' = head]_vars
    /\ [][PopStep => tail' = tail]_vars
    /\ [][tail' # tail =>
            /\ PushStoreTail
            /\ p_ret'
            /\ tail' = (tail + 1) % capacity]_vars
    /\ [][head' # head =>
            /\ PopStoreHead
            /\ c_ret'
            /\ head' = (head + 1) % capacity]_vars

\* Both indices have been advanced around the ring of a queue of capacity
\* three or more; a push and a pop have just returned true.
C15_Witness ==
    /\ capacity >= 3
    /\ Len(popped) >= capacity
    /\ p_pc = "ret" /\ p_ret
    /\ c_pc = "ret" /\ c_ret
\* ==================================================== claims, SpecPool
\* The slots a live queue has checked out, in ring order.
QueueSlots == [k \in 1..capacity |-> buffer[k - 1]]
\* Every handle that allocate() returned and deallocate() has not taken back.
Outstanding == held \o QueueSlots \o leaked

\* C6: when only handles obtained from allocate are deallocated, each once,
\* every slot of the pool is in the free list exactly once or is exactly one
\* outstanding allocate result, never both, and the free count plus the
\* outstanding count is the pool size.
C6_SlotUniqueness ==
    /\ \A a \in 1..size_ : Count(free_list_, a) + Count(Outstanding, a) = 1
    /\ \A i, j \in 1..Len(Outstanding) :
          Outstanding[i] = Outstanding[j] => i = j
    /\ Range(free_list_) \cup Range(Outstanding) = 1..size_
    /\ Len(free_list_) + Len(Outstanding) = size_

\* Slots were handed out, returned out of order and handed out again.
C6_Witness ==
    /\ Len(held) >= 2
    /\ Len(free_list_) >= 1
    /\ free_list_ # SubSeq(PoolInit(size_), 1, Len(free_list_))
    /\ a_ret = held[Len(held)]
\* C12: the free list never holds more than size_ handles and never the null
\* handle; allocate() on an empty free list returns the null handle and
\* changes nothing else of the pool; deallocate(nullptr) changes nothing.
C12_PoolNeverGrows ==
    /\ [](Len(free_list_) <= size_ /\ NullPtr \notin Range(free_list_))
    /\ [][(Allocate /\ free_list_ = <<>>) =>
            (a_ret' = NullPtr /\ UNCHANGED <<free_list_, size_, held, leaked>>)]_vars
    /\ [][DeallocateNull => UNCHANGED poolVars]_vars

\* Every slot of a pool of at least two is handed out and a further
\* allocate() has returned the null handle.
C12_Witness ==
    /\ size_ >= 2
    /\ free_list_ = <<>>
    /\ Len(held) = size_
    /\ a_ret = NullPtr
\* C13: whatever free list the pool has, constructing a queue of capacity
\* cap completes exactly when the free list holds at least cap handles
\* (exactly cap included).  A construction that completes has taken
\* capacity handles, all different and none null; one that throws leaves no
\* queue, and was asked for more than the pool had free.
C13_ConstructNeedsCapacity ==
    /\ [](\A cap \in 1..MaxCapacity :
            QueueConstruct(cap, free_list_).ok <=> Len(free_list_) >= cap)
    /\ [][(ConstructQueue /\ q_state' = "live") =>
            /\ Len(free_list_) >= capacity'
            /\ Len(free_list_') = Len(free_list_) - capacity'
            /\ DOMAIN buffer' = 0..(capacity' - 1)
            /\ \A i \in DOMAIN buffer' : buffer'[i] \in Range(free_list_)
            /\ \A i, j \in DOMAIN buffer' : buffer'[i] = buffer'[j] => i = j]_vars
    /\ [][(ConstructQueue /\ q_state' # "live") =>
            /\ Len(free_list_) < MaxCapacity
            /\ capacity' = 0
            /\ buffer' = <<>>]_vars

\* A queue whose capacity is the whole pool was constructed, after the
\* client had handed slots out and taken them back.
C13_Witness ==
    /\ q_state = "live"
    /\ capacity = size_
    /\ size_ >= 2
    /\ free_list_ = <<>>
    /\ a_ret # NullPtr
\* ==================================================== claims, SpecPipe
\* C7: when stop() has returned (and neither loop ended in a catch block),
\* the channel is empty and the records the consumer loop processed are
\* exactly the records whose push returned true, in push order.
C7_DrainOnStop ==
    (s_pc = "stopped" /\ ~p_failed /\ ~c_failed) =>
        /\ head = tail
        /\ processed = pushed

\* C8: with every thread scheduled fairly, a stop() that was called returns;
\* it returns only when both loops have exited; and the producer loop has
\* exited only if all batches were emitted or running is false.
C8_StopTerminates ==
    /\ (s_pc = "stop_sleep") ~> (s_pc = "stopped")
    /\ [](s_pc = "stopped" => (g_pc = "exited" /\ d_pc = "exited"))
    /\ [](g_pc = "exited" => (batch = NumBatches \/ ~running))

\* stop() has returned although the consumer loop failed, the producer was
\* cut short and records are left in the channel.
C8_Witness ==
    /\ s_pc = "stopped"
    /\ c_failed
    /\ head # tail
    /\ batch < NumBatches
\* C14: the pool of the pipeline had every slot free before the queue was
\* constructed over it; once the queue is destroyed, after whatever pushes
\* and pops the run made, the free list again holds every slot, each once.
\* The destructor adds to the free list exactly the slots the queue had
\* borrowed, one entry per ring position.
C14_ConstructDestroyRoundTrip ==
    /\ [](s_pc = "destroyed" =>
            /\ q_state = "none"
            /\ Range(free_list_) = Range(PoolInit(size_))
            /\ Len(free_list_) = size_)
    /\ [][Destroy =>
            /\ Range(free_list_') = Range(free_list_) \cup Range(QueueSlots)
            /\ Len(free_list_') = Len(free_list_) + capacity
            /\ \A a \in Range(QueueSlots) :
                  Count(free_list_', a) = Count(free_list_, a) + 1]_vars

\* The queue was destroyed after pushes and pops, with records still in it;
\* the slots came back in another order than the pool first listed them.
C14_Witness ==
    /\ s_pc = "destroyed"
    /\ Len(popped) >= 1
    /\ Len(pushed) > Len(popped)
    /\ free_list_ # PoolInit(size_)
\* C16: in the pipeline, from construction until ~MarketDataParser the free
\* list and the slot of every ring position are what the constructors left;
\* no step of push or pop changes the pool or the slot assignment; and the
\* only step that changes either is the destructor's, taken when both loops
\* have exited.
C16_PoolUntouchedWhileRunning ==
    /\ [](s_pc # "destroyed" =>
            /\ free_list_ = QueueConstruct(PipeCapacity, PoolInit(PipeCapacity)).free
            /\ buffer = QueueConstruct(PipeCapacity, PoolInit(PipeCapacity)).buffer
            /\ capacity = PipeCapacity)
    /\ [][(PushStep \/ PopStep) =>
            UNCHANGED <<free_list_, size_, buffer, capacity>>]_vars
    /\ [][(free_list_' # free_list_ \/ buffer' # buffer) =>
            /\ Destroy
            /\ g_pc = "exited"
            /\ d_pc = "exited"]_vars

\* Every record of every batch went through push and pop, stop() has
\* returned and the queue still stands on the slots it was constructed on.
C16_Witness ==
    /\ s_pc = "stopped"
    /\ Len(pushed) = NumBatches * BatchSize
    /\ processed = pushed
    /\ buffer = QueueConstruct(PipeCapacity, PoolInit(PipeCapacity)).buffer
\* stop() has cleared running.
StopCleared == s_pc \in {"join_producer", "join_consumer", "stopped", "destroyed"}

\* C17: a loop that did not fail itself leaves its work only for a reason of
\* its own: the consumer leaves its while (running) loop only once stop()
\* has cleared running, and the producer loop exits only once stop() has
\* cleared running or all its batches are emitted.
C17_FailureIsolated ==
    /\ (d_pc \in {"in_drain", "exited"} /\ ~c_failed) => StopCleared
    /\ (g_pc = "exited" /\ ~p_failed) => (batch = NumBatches \/ StopCleared)
\* ================================================= claims, SpecBackoff
\* What the n-th consecutive failed poll is to do, n <= 100000.
ExpectedPause(n) ==
    IF n < 10000 THEN "spin" ELSE IF n < 100000 THEN "yield" ELSE "sleep"

\* C9: on a channel that stays empty, with running true, the n-th
\* consecutive failed poll re-polls at once for n < 10,000, yields for
\* 10,000 <= n <= 99,999 and sleeps for n = 100,000; stated of the poll just
\* made and of the poll the consumer is about to make.
C9_BackoffLadder ==
    /\ OnTheRun
    /\ (polls >= 1 /\ polls <= 100000) => last_pause = ExpectedPause(polls)
    /\ (d_pc = "while_test" /\ polls < 100000) =>
          /\ empty_count = polls
          /\ IdlePause(empty_count + 1) = ExpectedPause(polls + 1)

\* The 100,000th failed poll has slept.
C9_Witness ==
    /\ polls = 100000
    /\ last_pause = "sleep"
    /\ Len(sleep_log) = 1

\* The duration of the k-th sleep of an idle run, in microseconds.
ExpectedSleepUs(k) ==
    IF k = 1 THEN 10 ELSE IF k = 2 THEN 20 ELSE IF k = 3 THEN 40
    ELSE IF k = 4 THEN 80 ELSE 100

C18_SleepsOnceEscalated ==
    [][(IdlePoll /\ polls >= HighThreshold) => last_pause' = "sleep"]_vars

\* C19: right after a successful pop in the running loop the failed-poll
\* count, the idle-diagnostic count and the sleep step are 0, whatever they
\* were before, so the next failed poll spins and the next sleep would last
\* 10 microseconds; the idle run that follows a pop spins for its first
\* 9,999 failed polls and the first sleep it reaches lasts 10 microseconds.
C19_PopResetsIdleState ==
    /\ OnTheRun
    /\ (d_pc = "while_test" /\ polls = 0) =>
          /\ empty_count = 0
          /\ yield_count = 0
          /\ sleep_count = 0
          /\ IdlePause(empty_count + 1) = "spin"
          /\ SleepUs(sleep_count) = 10
    /\ (processed # <<>> /\ polls >= 1 /\ polls < 10000) => last_pause = "spin"
    /\ (processed # <<>> /\ sleep_log # <<>>) => sleep_log[1] = 10

\* A record was popped and the idle run after it has reached its first sleep.
C19_Witness ==
    /\ processed # <<>>
    /\ processed = pushed
    /\ polls = 100000
    /\ sleep_log = <<10>>

\* ========================================== claims, SpecPipe (continued)
\* C20: when the producer loop has exited, items_pushed is the number of
\* push calls that returned true.
C20_PushedCounterExact ==
    g_pc = "exited" => items_pushed = Len(pushed)

\* The consumer loop ended on its pinning failure (a failure inside the loop
\* comes only after a pop has returned a record).
PinningFailed == c_failed /\ popped = <<>>

C22_NoCrossConsumerSafety ==
    /\ [](n_pc = "ret" => (n_ret <=> n_head # n_tail))
    /\ [](c_pc = "ret" => (c_ret <=> current_head # c_tail))
    /\ [][NextStoreHead => (n_ret' /\ head' = (n_head + 1) % capacity)]_vars
    /\ [][PopStoreHead => (c_ret' /\ head' = (current_head + 1) % capacity)]_vars

\* Both pops have returned true with the same record, which was pushed once
\* and is now delivered twice, and head has advanced by one only.
C22_Witness ==
    /\ c_pc = "ret" /\ c_ret
    /\ n_pc = "ret" /\ n_ret
    /\ c_item = n_item
    /\ Count(pushed, c_item) = 1
    /\ Count(popped, c_item) = 2
    /\ Len(popped) = 2
    /\ head = 1

====
